---- MODULE Spec2Model ----
(***************************************************************************)
(* A model of the whilego front end: the lexical Scanner and the recursive *)
(* descent Parser of the WHILE language.                                   *)
(*                                                                         *)
(* Characters are one-character strings, a source text is a sequence of    *)
(* characters.  The Scanner is modelled by operators over (source, reader  *)
(* position); the Parser is a step machine with an explicit call stack,    *)
(* one step per token read by the grammar logic.                           *)
(***************************************************************************)
EXTENDS Integers, Sequences, FiniteSets, TLC

VARIABLES
    input,   \* the characters handed to strings.NewReader
    items,   \* the lexemes the input was assembled from (the test case)
    mode,    \* "scanner": a bare Scanner is driven; "parser": a Parser is
    pos,     \* Scanner.r: index of the next character the reader returns
    out,     \* results of the Scanner.Scan calls made directly by the caller
    buf,     \* Parser.buf: tok, lit, n
    stack,   \* the active Parse invocations, innermost last
    ret,     \* what the Parse invocation that returned last returned
    trace,   \* what each scanIgnoreWhitespace call of the grammar logic returned
    phase,   \* "new", "parsing", "returned", "rescanned"
    next     \* what a scan() made after Parse returned gave back

vars == <<input, items, mode, pos, out, buf, stack, ret, trace, phase, next>>

----------------------------------------------------------------------------
(* Bounds of the model *)

\* variable indices 0..MaxVar are written out in the generated programs
MaxVar == 11
\* number of statements in a generated sequence program
MaxStmts == 3
\* number of lexemes in a free-form source
MaxLex == 2
\* number of tokens in a whitespace-separated token source
MaxToks == 3

----------------------------------------------------------------------------
(* Tokens: the Token enumeration *)

ILLEGAL == "ILLEGAL"
EOF == "EOF"
WS == "WS"
VARIABLE_T == "VARIABLE"
CONSTANT_T == "CONSTANT"
SEMICOLON == "SEMICOLON"
ASSIGN == "ASSIGN"
NOTEQUAL == "NOTEQUAL"
PLUS == "PLUS"
MINUS == "MINUS"
WHILE == "WHILE"
DO == "DO"
END == "END"

\* a nil error
nil == "<nil>"

\* rune(0), which read() also returns together with every read error
eof == "NUL"

isWhitespace(ch) == ch = " " \/ ch = "\t" \/ ch = "\n"

Digits == <<"0", "1", "2", "3", "4", "5", "6", "7", "8", "9">>

isDigit(ch) == \E i \in 1..10 : Digits[i] = ch

----------------------------------------------------------------------------
(* The Scanner *)

\* Scanner.read: the next rune, or (eof, err) when ReadRune fails, which it
\* does when the stream is exhausted
read(src, r) ==
    IF r > Len(src)
    THEN [ch |-> eof, err |-> "EOF", r |-> r]
    ELSE [ch |-> src[r], err |-> nil, r |-> r + 1]

\* Scanner.unread: every call follows a successful read, so UnreadRune
\* succeeds and steps the reader back by one rune
unread(r) == r - 1

\* variant: an error comes with the EOF token
scanErrorAsEOF(err, r) == [tok |-> EOF, lit |-> <<>>, err |-> err, r |-> r]

scanError(err, r) == [tok |-> ILLEGAL, lit |-> <<>>, err |-> err, r |-> r]

RECURSIVE whitespaceLoopNoUnread(_, _, _)
\* variant: the character that ends the run is not put back
whitespaceLoopNoUnread(src, r, b) ==
    LET rd == read(src, r) IN
    IF rd.err # nil /\ rd.ch # eof
    THEN scanError("error tokenizing whitespace", rd.r)
    ELSE IF rd.ch = eof \/ ~isWhitespace(rd.ch)
    THEN [tok |-> WS, lit |-> b, err |-> nil, r |-> rd.r]
    ELSE whitespaceLoopNoUnread(src, rd.r, Append(b, rd.ch))

RECURSIVE whitespaceLoop(_, _, _)
whitespaceLoop(src, r, b) ==
    LET rd == read(src, r) IN
    IF rd.err # nil /\ rd.ch # eof
    THEN scanError("error tokenizing whitespace", rd.r)
    ELSE IF rd.ch = eof
    THEN [tok |-> WS, lit |-> b, err |-> nil, r |-> rd.r]
    ELSE IF ~isWhitespace(rd.ch)
    THEN [tok |-> WS, lit |-> b, err |-> nil, r |-> unread(rd.r)]
    ELSE whitespaceLoop(src, rd.r, Append(b, rd.ch))

scanWhitespace(src, r) ==
    LET rd == read(src, r) IN
    IF rd.err # nil
    THEN scanError("error tokenizing whitespace", rd.r)
    ELSE whitespaceLoop(src, rd.r, <<rd.ch>>)

RECURSIVE digitLoop(_, _, _)
digitLoop(src, r, b) ==
    LET rd == read(src, r) IN
    IF rd.err # nil /\ rd.ch # eof
    THEN scanError("error tokenizing whitespace", rd.r)
    ELSE IF rd.ch = eof
    THEN [tok |-> VARIABLE_T, lit |-> b, err |-> nil, r |-> rd.r]
    ELSE IF ~isDigit(rd.ch)
    THEN [tok |-> VARIABLE_T, lit |-> b, err |-> nil, r |-> unread(rd.r)]
    ELSE digitLoop(src, rd.r, Append(b, rd.ch))

\* r is the reader position when scanVariable is entered (after the 'x')
scanVariable(src, r) ==
    LET rd == read(src, unread(r)) IN
    IF rd.err # nil
    THEN scanError(rd.err, rd.r)
    ELSE IF rd.ch # "x"
    THEN scanError("variable does not start with x", rd.r)
    ELSE digitLoop(src, rd.r, <<rd.ch>>)

RECURSIVE matchLoopAny(_, _, _, _, _, _)
\* variant: the characters read are not compared with str
matchLoopAny(src, r, expectedToken, str, i, b) ==
    IF i > Len(str)
    THEN [tok |-> expectedToken, lit |-> b, err |-> nil, r |-> r]
    ELSE LET rd == read(src, r) IN
         IF rd.err # nil
         THEN [tok |-> expectedToken, lit |-> b, err |-> nil, r |-> rd.r]
         ELSE matchLoopAny(src, rd.r, expectedToken, str, i + 1, Append(b, rd.ch))

RECURSIVE matchLoop(_, _, _, _, _, _)
matchLoop(src, r, expectedToken, str, i, b) ==
    IF i > Len(str)
    THEN [tok |-> expectedToken, lit |-> b, err |-> nil, r |-> r]
    ELSE LET rd == read(src, r) IN
         IF rd.err # nil
         THEN scanError(rd.err, rd.r)
         ELSE IF rd.ch # str[i]
         THEN scanError("unexpected string", rd.r)
         ELSE matchLoop(src, rd.r, expectedToken, str, i + 1, Append(b, rd.ch))

\* variant: the first character is not put back before matching
scanStringNoUnread(src, r, expectedToken, str) ==
    matchLoop(src, r, expectedToken, str, 1, <<>>)

\* r is the reader position when scanString is entered
scanString(src, r, expectedToken, str) ==
    matchLoop(src, unread(r), expectedToken, str, 1, <<>>)

strAssign == <<":", "=">>
strNotEqual == <<"!", "=">>
strWhile == <<"W", "H", "I", "L", "E">>
strDo == <<"D", "O">>
strEnd == <<"E", "N", "D">>

\* Scanner.Scan from reader position r: token, literal, error, new position
Scan(src, r) ==
    LET rd == read(src, r)
        ch == rd.ch
    IN
    IF rd.err # nil
    THEN scanError("error reading next character", rd.r)
    ELSE IF isWhitespace(ch)
    THEN scanWhitespace(src, unread(rd.r))
    ELSE IF ch = eof
    THEN [tok |-> EOF, lit |-> <<>>, err |-> nil, r |-> rd.r]
    ELSE IF ch = "x"
    THEN scanVariable(src, rd.r)
    ELSE IF ch = "0" \/ ch = "1"
    THEN [tok |-> CONSTANT_T, lit |-> <<ch>>, err |-> nil, r |-> rd.r]
    ELSE IF ch = ":"
    THEN scanString(src, rd.r, ASSIGN, strAssign)
    ELSE IF ch = "!"
    THEN scanString(src, rd.r, NOTEQUAL, strNotEqual)
    ELSE IF ch = ";"
    THEN [tok |-> SEMICOLON, lit |-> <<ch>>, err |-> nil, r |-> rd.r]
    ELSE IF ch = "+"
    THEN [tok |-> PLUS, lit |-> <<ch>>, err |-> nil, r |-> rd.r]
    ELSE IF ch = "-"
    THEN [tok |-> MINUS, lit |-> <<ch>>, err |-> nil, r |-> rd.r]
    ELSE IF ch = "W"
    THEN scanString(src, rd.r, WHILE, strWhile)
    ELSE IF ch = "D"
    THEN scanString(src, rd.r, DO, strDo)
    ELSE IF ch = "E"
    THEN scanString(src, rd.r, END, strEnd)
    ELSE [tok |-> ILLEGAL, lit |-> <<ch>>, err |-> nil, r |-> rd.r]

----------------------------------------------------------------------------
(* Expressions: ExprType, Expr, IncrExpr, SeqExpr *)

INVALID_EXPR == "INVALID_EXPR"
INCR_EXPR == "INCR_EXPR"
SEQ_EXPR == "SEQ_EXPR"
WHILE_EXPR == "WHILE_EXPR"

\* a nil pointer
NilPtr == [nil |-> TRUE]

\* &Expr{}: the zero Type is INVALID_EXPR, the three pointers are nil
NewExpr ==
    [Type |-> INVALID_EXPR, IncrExpr |-> NilPtr, SeqExpr |-> NilPtr,
     WhileExpr |-> NilPtr]

\* &IncrExpr{}
NewIncrExpr == [Variable |-> 0, Decrement |-> FALSE]

----------------------------------------------------------------------------
(* The Parser's read primitives *)

\* variant: the token the Scanner returned is not kept in the buffer
scanNoSave(src, r, b) ==
    IF b.n # 0
    THEN [tok |-> b.tok, lit |-> b.lit, err |-> nil, r |-> r,
          buf |-> [b EXCEPT !.n = 0]]
    ELSE LET s == Scan(src, r) IN
         [tok |-> s.tok, lit |-> s.lit, err |-> s.err, r |-> s.r, buf |-> b]

\* Parser.scan: the buffered token if one was pushed back, else the
\* Scanner's next token, which is also written into the buffer
scan(src, r, b) ==
    IF b.n # 0
    THEN [tok |-> b.tok, lit |-> b.lit, err |-> nil, r |-> r,
          buf |-> [b EXCEPT !.n = 0]]
    ELSE LET s == Scan(src, r) IN
         [tok |-> s.tok, lit |-> s.lit, err |-> s.err, r |-> s.r,
          buf |-> [b EXCEPT !.tok = s.tok, !.lit = s.lit]]

\* Parser.unscan
unscan(b) == [b EXCEPT !.n = 1]

\* Parser.scanIgnoreWhitespace; t is what the first scan returned
scanIgnoreWhitespace(src, r, b) ==
    CHOOSE u \in { IF t.err # nil THEN t
                   ELSE IF t.tok = WS THEN scan(src, t.r, t.buf)
                   ELSE t : t \in {scan(src, r, b)} } : TRUE

\* variant: the prefix is left on
TrimPrefixNone(lit) == lit

\* strings.TrimPrefix(lit, "x")
TrimPrefix(lit) == IF lit # <<>> /\ lit[1] = "x" THEN Tail(lit) ELSE lit

DigitVal(ch) == (CHOOSE i \in 1..10 : Digits[i] = ch) - 1

RECURSIVE DecVal(_)
DecVal(ds) ==
    IF ds = <<>> THEN 0
    ELSE 10 * DecVal(SubSeq(ds, 1, Len(ds) - 1)) + DigitVal(ds[Len(ds)])

\* variant: a digit run with a leading zero is refused
AtoiNoLeadingZero(ds) ==
    IF ds = <<>> \/ (\E i \in 1..Len(ds) : ~isDigit(ds[i]))
       \/ (Len(ds) > 1 /\ ds[1] = "0")
    THEN [n |-> 0, err |-> "invalid syntax"]
    ELSE [n |-> DecVal(ds), err |-> nil]

\* strconv.Atoi on what the scanner leaves after the 'x': a run of decimal
\* digits, an error when it is empty.  The runs of the model are far below
\* the int range.
Atoi(ds) ==
    IF ds = <<>> \/ \E i \in 1..Len(ds) : ~isDigit(ds[i])
    THEN [n |-> 0, err |-> "invalid syntax"]
    ELSE [n |-> DecVal(ds), err |-> nil]

----------------------------------------------------------------------------
(* Source texts *)

RECURSIVE Flatten(_)
\* the concatenation of a sequence of lexemes
Flatten(ss) == IF ss = <<>> THEN <<>> ELSE Head(ss) \o Flatten(Tail(ss))

RECURSIVE Itoa(_)
\* the decimal digits of n >= 0, as the tests write variable indices
Itoa(n) == IF n < 10 THEN <<Digits[n + 1]>>
           ELSE Append(Itoa(n \div 10), Digits[(n % 10) + 1])

VarLit(n) == <<"x">> \o Itoa(n)

\* the literals of the valid tokens, one or more per category
TokenLits ==
    { strAssign, strNotEqual, strWhile, strDo, strEnd,
      <<";">>, <<"+">>, <<"-">>, <<"0">>, <<"1">>, VarLit(1), VarLit(42) }

WsRuns == { <<" ">>, <<"\n", "\t", " ">> }

\* fragments that are no token, or a token the grammar has no use for
OddLits ==
    { <<":">>, <<":", "!">>, <<"!">>, <<"!", "!">>, <<"=">>,
      <<"W">>, <<"W", "H">>, <<"W", "H", "I">>, <<"W", "H", "I", "L">>,
      <<"D">>, <<"E">>, <<"E", "N">>,
      <<"a">>, <<"2">>, <<eof>>, <<"x">>, <<"x", "0", "4", "2">> }

Lexemes == TokenLits \cup WsRuns \cup OddLits

SeqsUpTo(S, n) == UNION { [1..k -> S] : k \in 0..n }

\* tokens t1 .. tk with the whitespace run w between neighbours
Spaced(ts, w) ==
    [i \in 1..(2 * Len(ts) - 1) |-> IF i % 2 = 1 THEN ts[(i + 1) \div 2] ELSE w]

\* the program of TestMultipleTokens
SomeProgram ==
    Spaced(<<strWhile, VarLit(1), strNotEqual, <<"0">>, strDo, VarLit(1),
             strAssign, VarLit(1), <<"-">>, <<"1">>, strEnd>>, <<" ">>)

TokenSources ==
    { Spaced(ts, w) : ts \in (SeqsUpTo(TokenLits, MaxToks) \ {<<>>}), w \in WsRuns }
    \cup {SomeProgram}

\* a NUL character, as the "EOF" case of TestSingleToken feeds it, between
\* whitespace runs, variables and digits
NulSources ==
    { <<a, <<eof>>, b>> :
        a \in WsRuns \cup {VarLit(1), <<"x">>},
        b \in WsRuns \cup {VarLit(1), <<"1">>} }

ScannerSources == SeqsUpTo(Lexemes, MaxLex) \cup TokenSources \cup NulSources

----------------------------------------------------------------------------
(* State *)

\* the zero value of Parser.buf
EmptyBuf == [tok |-> ILLEGAL, lit |-> <<>>, n |-> 0]

NoTok == [tok |-> "none", lit |-> <<>>, err |-> nil]

NoRet == [expr |-> [nil |-> TRUE], err |-> nil, valid |-> FALSE]

InitCommon ==
    /\ input = Flatten(items)
    /\ pos = 1
    /\ out = <<>>
    /\ buf = EmptyBuf
    /\ stack = <<>>
    /\ ret = NoRet
    /\ trace = <<>>
    /\ phase = "new"
    /\ next = NoTok

\* NewScanner(strings.NewReader(input))
InitScan ==
    /\ mode = "scanner"
    /\ items \in ScannerSources
    /\ InitCommon

Exhausted == pos > Len(input)

\* the caller's tok, lit, err := scanner.Scan(); it goes on calling until a
\* call on the exhausted stream has reported an error
ScannerScan ==
    /\ mode = "scanner"
    /\ ~(out # <<>> /\ Exhausted /\ out[Len(out)].err # nil)
    /\ \E s \in {Scan(input, pos)} :
       /\ out' = Append(out, [tok |-> s.tok, lit |-> s.lit, err |-> s.err, at |-> pos])
       /\ pos' = s.r
    /\ UNCHANGED <<input, items, mode, buf, stack, ret, trace, phase, next>>

NextScan == ScannerScan

SpecScan == InitScan /\ [][NextScan]_vars

----------------------------------------------------------------------------
(* Programs handed to the Parser *)

\* the indices written out in generated increments
VarIdx == (0..MaxVar) \cup {42, 105}

\* variable names: x<n>, a bare x, and names with and without a leading zero
VarLits == { VarLit(n) : n \in VarIdx } \cup { <<"x">>, <<"x", "0", "4", "2">> }

\* what separates the tokens of a generated statement: nothing or one space
Gaps == { <<>>, <<" ">> }

Sign(dec) == IF dec THEN <<"-">> ELSE <<"+">>

\* l a r s c with the gap g between neighbours
IncrItems(l, a, r, s, c, g) == <<l, g, a, g, r, g, s, g, c>>

\* "x<n> := x<n> +/- 1"
IncrStmt(n, dec, g) ==
    IncrItems(VarLit(n), strAssign, VarLit(n), Sign(dec), <<"1">>, g)

AnyLexeme == Lexemes \cup {<<>>}

\* increments over every pair of variable names
VarSources ==
    { IncrItems(l, strAssign, r, Sign(dec), <<"1">>, g) :
        l \in VarLits, r \in VarLits, dec \in BOOLEAN, g \in Gaps }

\* increments with one position replaced by an arbitrary lexeme
SlotSources ==
    { IncrItems(VarLit(1), a, VarLit(1), <<"+">>, <<"1">>, g) :
        a \in AnyLexeme, g \in Gaps }
    \cup { IncrItems(VarLit(1), strAssign, VarLit(1), s, <<"1">>, g) :
        s \in AnyLexeme, g \in Gaps }
    \cup { IncrItems(VarLit(1), strAssign, VarLit(1), Sign(dec), c, g) :
        c \in AnyLexeme, dec \in BOOLEAN, g \in Gaps }

\* a valid increment followed by up to two more lexemes
TrailSources ==
    { IncrStmt(1, dec, g) \o <<g, t1, g, t2>> :
        dec \in BOOLEAN, g \in Gaps, t1 \in AnyLexeme,
        t2 \in TokenLits \cup {<<>>} }

\* the statements sequence programs are made of: three increments, an
\* increment of two different variables, a lone sign, and a decrement with
\* an END behind it
StmtIncrs == { <<1, FALSE>>, <<1, TRUE>>, <<11, FALSE>> }

StmtChoices ==
    { <<"incr", p>> : p \in StmtIncrs }
    \cup { <<"mixed", 0>>, <<"sign", 0>>, <<"trail", 0>> }

StmtItems(c, g) ==
    IF c[1] = "incr" THEN IncrStmt(c[2][1], c[2][2], g)
    ELSE IF c[1] = "mixed"
    THEN IncrItems(VarLit(1), strAssign, VarLit(0), <<"+">>, <<"1">>, g)
    ELSE IF c[1] = "trail"
    THEN IncrStmt(0, TRUE, g) \o <<g, strEnd>>
    ELSE <<<<"+">>>>

RECURSIVE SeqItems(_, _)
\* "S1 ; S2 ; ... ; Sk"
SeqItems(cs, g) ==
    IF Len(cs) = 1 THEN StmtItems(cs[1], g)
    ELSE StmtItems(cs[1], g) \o <<g, <<";">>, g>> \o SeqItems(Tail(cs), g)

SeqSources ==
    { SeqItems(cs, g) :
        cs \in (SeqsUpTo(StmtChoices, MaxStmts) \ {<<>>}), g \in Gaps }

\* the loop of TestMultipleTokens, alone and as the second statement
WhileSources ==
    { SomeProgram, IncrStmt(1, FALSE, <<" ">>) \o <<<<" ">>, <<";">>, <<" ">>>> \o SomeProgram }

ParserSources ==
    VarSources \cup SlotSources \cup TrailSources \cup SeqSources
    \cup SeqsUpTo(Lexemes, MaxLex) \cup WhileSources

----------------------------------------------------------------------------
(* The Parser *)

\* NewParser(strings.NewReader(input))
Init ==
    /\ mode = "parser"
    /\ items \in ParserSources
    /\ InitCommon

\* the locals of a Parse invocation and of the parseIncr it calls
NewFrame ==
    [pc |-> "start", ex1 |-> NewExpr, expr |-> NilPtr,
     incrExpr |-> NewIncrExpr, firstVarNum |-> 0]

Top == stack[Len(stack)]

SetTop(f) == [stack EXCEPT ![Len(stack)] = f]

At(pc) == mode = "parser" /\ phase = "parsing" /\ stack # <<>> /\ Top.pc = pc

\* the innermost Parse returns (e, err) to its caller
Return(e, err) ==
    /\ stack' = SubSeq(stack, 1, Len(stack) - 1)
    /\ ret' = [expr |-> e, err |-> err, valid |-> TRUE]
    /\ phase' = IF Len(stack) = 1 THEN "returned" ELSE phase

Goto(f) == stack' = SetTop(f) /\ UNCHANGED <<ret, phase>>

\* one token as the grammar logic saw it; n is the buffer count the scan left
Seen(where, t) ==
    [where |-> where, tok |-> t.tok, lit |-> t.lit, err |-> t.err, r |-> t.r,
     n |-> t.buf.n, depth |-> Len(stack)]

\* the caller's parser.Parse()
CallParse ==
    /\ mode = "parser" /\ phase = "new"
    /\ stack' = <<NewFrame>>
    /\ phase' = "parsing"
    /\ UNCHANGED <<input, items, mode, pos, out, buf, ret, trace, next>>

\* Parse, from its entry to the call of parseIncr
ParseStart ==
    /\ At("start")
    /\ \E t \in {scanIgnoreWhitespace(input, pos, buf)} :
       /\ pos' = t.r
       /\ trace' = Append(trace, Seen("start", t))
       /\ IF t.err # nil
          THEN buf' = t.buf /\ Return(Top.expr, "error tokenizing")
          ELSE IF t.tok = VARIABLE_T
          THEN buf' = unscan(t.buf) /\ Goto([Top EXCEPT !.pc = "incrLeft"])
          ELSE buf' = t.buf /\ Goto([Top EXCEPT !.pc = "follow"])
    /\ UNCHANGED <<input, items, mode, out, next>>

\* parseIncr: the left side variable
IncrLeft ==
    /\ At("incrLeft")
    /\ \E t \in {scanIgnoreWhitespace(input, pos, buf)} :
       LET a == Atoi(TrimPrefix(t.lit)) IN
       /\ pos' = t.r
       /\ buf' = t.buf
       /\ trace' = Append(trace, Seen("incrLeft", t))
       /\ IF t.err # nil
          THEN Return(NilPtr, "error parsing left side variable")
          ELSE IF t.tok # VARIABLE_T
          THEN Return(NilPtr, "initial token of increment has to be a variable")
          ELSE IF a.err # nil
          THEN Return(NilPtr, "error parsing variable number")
          ELSE Goto([Top EXCEPT !.pc = "incrAssign", !.firstVarNum = a.n,
                                !.incrExpr.Variable = a.n])
    /\ UNCHANGED <<input, items, mode, out, next>>

\* parseIncr: the assignment operator
IncrAssign ==
    /\ At("incrAssign")
    /\ \E t \in {scanIgnoreWhitespace(input, pos, buf)} :
       /\ pos' = t.r
       /\ buf' = t.buf
       /\ trace' = Append(trace, Seen("incrAssign", t))
       /\ IF t.err # nil
          THEN Return(NilPtr, "error parsing equal sign")
          ELSE IF t.tok # ASSIGN
          THEN Return(NilPtr, "expected assignment operator after variable")
          ELSE Goto([Top EXCEPT !.pc = "incrRight"])
    /\ UNCHANGED <<input, items, mode, out, next>>

\* variant: the two indices are not compared
IncrRightAnyIndex ==
    /\ At("incrRight")
    /\ \E t \in {scanIgnoreWhitespace(input, pos, buf)} :
       LET a == Atoi(TrimPrefix(t.lit)) IN
       /\ pos' = t.r
       /\ buf' = t.buf
       /\ trace' = Append(trace, Seen("incrRight", t))
       /\ IF t.err # nil
          THEN Return(NilPtr, "error parsing left side variable")
          ELSE IF t.tok # VARIABLE_T
          THEN Return(NilPtr, "initial token of increment has to be a variable")
          ELSE IF a.err # nil
          THEN Return(NilPtr, "error parsing variable number")
          ELSE Goto([Top EXCEPT !.pc = "incrSign"])
    /\ UNCHANGED <<input, items, mode, out, next>>

\* parseIncr: the right side variable, which has to be the left side one
IncrRight ==
    /\ At("incrRight")
    /\ \E t \in {scanIgnoreWhitespace(input, pos, buf)} :
       LET a == Atoi(TrimPrefix(t.lit)) IN
       /\ pos' = t.r
       /\ buf' = t.buf
       /\ trace' = Append(trace, Seen("incrRight", t))
       /\ IF t.err # nil
          THEN Return(NilPtr, "error parsing left side variable")
          ELSE IF t.tok # VARIABLE_T
          THEN Return(NilPtr, "initial token of increment has to be a variable")
          ELSE IF a.err # nil
          THEN Return(NilPtr, "error parsing variable number")
          ELSE IF Top.firstVarNum # a.n
          THEN Return(NilPtr, "second variable index has to match the first one")
          ELSE Goto([Top EXCEPT !.pc = "incrSign"])
    /\ UNCHANGED <<input, items, mode, out, next>>

\* parseIncr: increment or decrement
IncrSign ==
    /\ At("incrSign")
    /\ \E t \in {scanIgnoreWhitespace(input, pos, buf)} :
       /\ pos' = t.r
       /\ buf' = t.buf
       /\ trace' = Append(trace, Seen("incrSign", t))
       /\ IF t.err # nil
          THEN Return(NilPtr, "error parsing increment/decrement")
          ELSE IF t.tok = PLUS
          THEN Goto([Top EXCEPT !.pc = "incrOne", !.incrExpr.Decrement = FALSE])
          ELSE IF t.tok = MINUS
          THEN Goto([Top EXCEPT !.pc = "incrOne", !.incrExpr.Decrement = TRUE])
          ELSE Return(NilPtr, "token has to be - or + sign")
    /\ UNCHANGED <<input, items, mode, out, next>>

\* variant: any constant is taken after the sign
IncrOneAnyConstant ==
    /\ At("incrOne")
    /\ \E t \in {scanIgnoreWhitespace(input, pos, buf)} :
       LET e == [Top.ex1 EXCEPT !.Type = INCR_EXPR, !.IncrExpr = Top.incrExpr] IN
       /\ pos' = t.r
       /\ buf' = t.buf
       /\ trace' = Append(trace, Seen("incrOne", t))
       /\ IF t.err # nil
          THEN Return(NilPtr, "error parsing number after increment/decrement")
          ELSE IF t.tok # CONSTANT_T
          THEN Return(NilPtr, "there has to follow a 1 after +/-")
          ELSE Goto([Top EXCEPT !.pc = "follow", !.ex1 = e, !.expr = e])
    /\ UNCHANGED <<input, items, mode, out, next>>

\* parseIncr: the 1 after the sign; then Parse makes ex1 the increment
IncrOne ==
    /\ At("incrOne")
    /\ \E t \in {scanIgnoreWhitespace(input, pos, buf)} :
       LET e == [Top.ex1 EXCEPT !.Type = INCR_EXPR, !.IncrExpr = Top.incrExpr] IN
       /\ pos' = t.r
       /\ buf' = t.buf
       /\ trace' = Append(trace, Seen("incrOne", t))
       /\ IF t.err # nil
          THEN Return(NilPtr, "error parsing number after increment/decrement")
          ELSE IF t.tok # CONSTANT_T \/ t.lit # <<"1">>
          THEN Return(NilPtr, "there has to follow a 1 after +/-")
          ELSE Goto([Top EXCEPT !.pc = "follow", !.ex1 = e, !.expr = e])
    /\ UNCHANGED <<input, items, mode, out, next>>

\* variant: a token that ends the statement without being a semicolon is
\* pushed back
ParseFollowUnscan ==
    /\ At("follow")
    /\ \E t \in {scanIgnoreWhitespace(input, pos, buf)} :
       /\ pos' = t.r
       /\ trace' = Append(trace, Seen("follow", t))
       /\ IF t.tok = ILLEGAL \/ t.tok = EOF
          THEN buf' = t.buf /\ Return(Top.expr, nil)
          ELSE IF t.err # nil
          THEN buf' = t.buf /\ Return(NilPtr, "error tokenizing after ws")
          ELSE IF t.tok = SEMICOLON
          THEN /\ buf' = t.buf
               /\ stack' = Append(SetTop([Top EXCEPT !.pc = "seq"]), NewFrame)
               /\ UNCHANGED <<ret, phase>>
          ELSE buf' = unscan(t.buf) /\ Return(Top.expr, nil)
    /\ UNCHANGED <<input, items, mode, out, next>>

\* variant: any token that does not end the input starts a recursive Parse
ParseFollowAlwaysRecurse ==
    /\ At("follow")
    /\ \E t \in {scanIgnoreWhitespace(input, pos, buf)} :
       /\ pos' = t.r
       /\ buf' = t.buf
       /\ trace' = Append(trace, Seen("follow", t))
       /\ IF t.tok = ILLEGAL \/ t.tok = EOF
          THEN Return(Top.expr, nil)
          ELSE IF t.err # nil
          THEN Return(NilPtr, "error tokenizing after ws")
          ELSE /\ stack' = Append(SetTop([Top EXCEPT !.pc = "seq"]), NewFrame)
               /\ UNCHANGED <<ret, phase>>
    /\ UNCHANGED <<input, items, mode, out, next>>

\* Parse: the token after the statement, up to the recursive call
ParseFollow ==
    /\ At("follow")
    /\ \E t \in {scanIgnoreWhitespace(input, pos, buf)} :
       /\ pos' = t.r
       /\ buf' = t.buf
       /\ trace' = Append(trace, Seen("follow", t))
       /\ IF t.tok = ILLEGAL \/ t.tok = EOF
          THEN Return(Top.expr, nil)
          ELSE IF t.err # nil
          THEN Return(NilPtr, "error tokenizing after ws")
          ELSE IF t.tok = SEMICOLON
          THEN /\ stack' = Append(SetTop([Top EXCEPT !.pc = "seq"]), NewFrame)
               /\ UNCHANGED <<ret, phase>>
          ELSE Return(Top.expr, nil)
    /\ UNCHANGED <<input, items, mode, out, next>>

\* variant: the two children change places
NewSeqExprSwapped(ex1, ex2) ==
    [NewExpr EXCEPT !.Type = SEQ_EXPR, !.SeqExpr = [P1 |-> ex2, P2 |-> ex1]]

\* &SeqExpr{ex1, ex2}
NewSeqExpr(ex1, ex2) ==
    [NewExpr EXCEPT !.Type = SEQ_EXPR, !.SeqExpr = [P1 |-> ex1, P2 |-> ex2]]

\* Parse: the recursive call has returned
ParseSeq ==
    /\ At("seq")
    /\ IF ret.err # nil
       THEN Return(NilPtr, "no valid expression after semicolon")
       ELSE Return(NewSeqExpr(Top.ex1, ret.expr), nil)
    /\ UNCHANGED <<input, items, mode, pos, out, buf, trace, next>>

\* a further p.scan() on the Parser whose Parse has returned
Rescan ==
    /\ mode = "parser" /\ phase = "returned"
    /\ \E t \in {scan(input, pos, buf)} :
       /\ pos' = t.r
       /\ buf' = t.buf
       /\ next' = [tok |-> t.tok, lit |-> t.lit, err |-> t.err]
    /\ phase' = "rescanned"
    /\ UNCHANGED <<input, items, mode, out, stack, ret, trace>>

Next ==
    \/ CallParse
    \/ ParseStart
    \/ IncrLeft
    \/ IncrAssign
    \/ IncrRight
    \/ IncrSign
    \/ IncrOne
    \/ ParseFollow
    \/ ParseSeq
    \/ Rescan

Spec == Init /\ [][Next]_vars

\* the steps of a running Parse
Running ==
    \/ ParseStart
    \/ IncrLeft
    \/ IncrAssign
    \/ IncrRight
    \/ IncrSign
    \/ IncrOne
    \/ ParseFollow
    \/ ParseSeq

\* the programs Parse is run to its end on: the sequences with one space
\* between the tokens, the increments with one position replaced, the loop,
\* and every lexeme alone
LiveSources ==
    { SeqItems(cs, <<" ">>) : cs \in (SeqsUpTo(StmtChoices, MaxStmts) \ {<<>>}) }
    \cup SlotSources \cup WhileSources
    \cup { <<l>> : l \in Lexemes } \cup {<<>>}

InitLive ==
    /\ mode = "parser"
    /\ items \in LiveSources
    /\ InitCommon

\* Parse is sequential code: once called, its next step is taken
SpecLive == InitLive /\ [][Next]_vars /\ WF_vars(Running)

----------------------------------------------------------------------------
(* Claims about the Scanner *)

IsPrefix(t, s) == Len(t) <= Len(s) /\ SubSeq(s, 1, Len(t)) = t

\* the fixed literals and the category each stands for
SingleTokenCases ==
    { <<strAssign, ASSIGN>>, <<strNotEqual, NOTEQUAL>>, <<strWhile, WHILE>>,
      <<strDo, DO>>, <<strEnd, END>>, <<<<";">>, SEMICOLON>>, <<<<"+">>, PLUS>>,
      <<<<"-">>, MINUS>>, <<<<"0">>, CONSTANT_T>>, <<<<"1">>, CONSTANT_T>> }

FixedTokens == { strAssign, strNotEqual, strWhile, strDo, strEnd }

\* C3: every Scan called on an exhausted stream returns (EOF, "", nil)
C3_EndOfStreamIsEOF ==
    \A i \in 1..Len(out) :
        out[i].at > Len(input) =>
            out[i].tok = EOF /\ out[i].lit = <<>> /\ out[i].err = nil

\* C4: the first Scan of a stream holding exactly one valid token literal L
\* returns L's category, the literal L and a nil error
C4_SingleToken ==
    \A c \in SingleTokenCases :
        (mode = "scanner" /\ input = c[1] /\ out # <<>>) =>
            out[1].tok = c[2] /\ out[1].lit = c[1] /\ out[1].err = nil

C4_Witness ==
    /\ mode = "scanner" /\ input = strWhile
    /\ out # <<>> /\ out[1].tok = WHILE /\ out[1].lit = strWhile

\* C5: an input that starts with the first character of ":=", "!=", WHILE, DO
\* or END but does not go on to spell it makes the first Scan return ILLEGAL
\* with an error, and so none of the five categories
C5_NoFalseMatch ==
    \A t \in FixedTokens :
        (mode = "scanner" /\ out # <<>> /\ input # <<>>
            /\ input[1] = t[1] /\ ~IsPrefix(t, input)) =>
            /\ out[1].tok = ILLEGAL
            /\ out[1].err # nil
            /\ out[1].tok \notin {ASSIGN, NOTEQUAL, WHILE, DO, END}

C5_Witness ==
    /\ mode = "scanner" /\ input = <<":", "!">>
    /\ out # <<>> /\ out[1].tok = ILLEGAL /\ out[1].err = "unexpected string"

\* the source is valid tokens with one whitespace run between neighbours
IsTokenSource(its) ==
    /\ Len(its) % 2 = 1
    /\ \A i \in 1..Len(its) :
        IF i % 2 = 1 THEN its[i] \in TokenLits ELSE its[i] \in WsRuns

\* the category the token table gives a literal
Category(l) ==
    IF l \in WsRuns THEN WS
    ELSE IF l[1] = "x" THEN VARIABLE_T
    ELSE (CHOOSE c \in SingleTokenCases : c[1] = l)[2]

Literals(o) == Flatten([i \in 1..Len(o) |-> o[i].lit])

\* C6: over a source of valid tokens separated by whitespace the Scan calls
\* return the tokens in source order with one WS between neighbours, each
\* literal being the characters the call consumed
C6_TokensInOrder ==
    (mode = "scanner" /\ IsTokenSource(items)) =>
        LET m == IF Len(out) < Len(items) THEN Len(out) ELSE Len(items) IN
        /\ \A i \in 1..m :
            /\ out[i].tok = Category(items[i])
            /\ out[i].lit = items[i]
            /\ out[i].err = nil
            /\ (IF i < Len(out) THEN out[i + 1].at ELSE pos)
                   = out[i].at + Len(out[i].lit)
        /\ Len(out) <= Len(items) =>
               Literals(out) = SubSeq(input, 1, pos - 1)

C6_Witness ==
    /\ mode = "scanner" /\ items = SomeProgram /\ Len(out) = Len(SomeProgram)
    /\ [i \in 1..Len(out) |-> out[i].tok] =
           <<WHILE, WS, VARIABLE_T, WS, NOTEQUAL, WS, CONSTANT_T, WS, DO, WS,
             VARIABLE_T, WS, ASSIGN, WS, VARIABLE_T, WS, MINUS, WS, CONSTANT_T,
             WS, END>>

----------------------------------------------------------------------------
(* Claims about the Parser *)

\* the expected values TestParse builds
makeIncrExpr(v, dec) ==
    [Type |-> INCR_EXPR, IncrExpr |-> [Variable |-> v, Decrement |-> dec],
     SeqExpr |-> NilPtr, WhileExpr |-> NilPtr]

makeSeqExpr(p1, p2) ==
    [Type |-> SEQ_EXPR, IncrExpr |-> NilPtr, SeqExpr |-> [P1 |-> p1, P2 |-> p2],
     WhileExpr |-> NilPtr]

\* the caller's Parse has returned
Returned == mode = "parser" /\ phase \in {"returned", "rescanned"}

Last(sq) == sq[Len(sq)]

\* C1: Parse of "x<n> := x<n> + 1" returns the increment of variable n with
\* a nil error, and with '-' the decrement
C1_ParseIncrement ==
    \A n \in VarIdx, dec \in BOOLEAN :
        (Returned /\ input = Flatten(IncrStmt(n, dec, <<" ">>))) =>
            ret.err = nil /\ ret.expr = makeIncrExpr(n, dec)

C1_Witness ==
    /\ Returned
    /\ input = Flatten(IncrStmt(105, TRUE, <<" ">>))
    /\ ret.err = nil
    /\ ret.expr.IncrExpr = [Variable |-> 105, Decrement |-> TRUE]

RECURSIVE RightNested(_)
\* Sequence(I1, Sequence(I2, ... Ik))
RightNested(ps) ==
    IF Len(ps) = 1 THEN makeIncrExpr(ps[1][1], ps[1][2])
    ELSE makeSeqExpr(makeIncrExpr(ps[1][1], ps[1][2]), RightNested(Tail(ps)))

IncrChoices(ps) == [i \in 1..Len(ps) |-> <<"incr", ps[i]>>]

\* a variable name with at least one digit, and the index it names
HasIndex(lit) ==
    /\ Len(lit) >= 2 /\ lit[1] = "x"
    /\ \A i \in 2..Len(lit) : isDigit(lit[i])

Index(lit) == DecVal(Tail(lit))

\* the nine items from its[b] on are "xN g := g xN g +/- g 1"
IsIncrAt(its, b) ==
    /\ HasIndex(its[b]) /\ its[b + 4] = its[b]
    /\ its[b + 2] = strAssign
    /\ its[b + 6] \in {<<"+">>, <<"-">>}
    /\ its[b + 8] = <<"1">>
    /\ its[b + 1] \in Gaps
    /\ \A j \in {3, 5, 7} : its[b + j] = its[b + 1]

\* the source is k >= 2 valid increments with "g ; g" between neighbours
IsIncrSequence(its) ==
    /\ Len(its) >= 21 /\ (Len(its) + 3) % 12 = 0
    /\ \A j \in 0..((Len(its) - 9) \div 12) : IsIncrAt(its, 12 * j + 1)
    /\ \A j \in 1..((Len(its) - 9) \div 12) :
        /\ its[12 * j] = its[2]
        /\ its[12 * j - 1] = <<";">>
        /\ its[12 * j - 2] = its[2]

\* the increments of such a source, in source order
IncrsOf(its) ==
    [j \in 1..((Len(its) + 3) \div 12) |->
        <<Index(its[12 * j - 11]), its[12 * j - 5] = <<"-">> >>]

\* C2: Parse of "I1 ; I2 ; ... ; Ik", k >= 2, returns with a nil error the
\* sequence whose P1 is I1 and whose P2 is the tree of "I2 ; ... ; Ik"
C2_RightNestedSequence ==
    (Returned /\ IsIncrSequence(items)) =>
        LET ps == IncrsOf(items) IN
        /\ ret.err = nil
        /\ ret.expr = RightNested(ps)
        /\ ret.expr.Type = SEQ_EXPR
        /\ ret.expr.SeqExpr.P1 = makeIncrExpr(ps[1][1], ps[1][2])
        /\ ret.expr.SeqExpr.P2 = RightNested(Tail(ps))

C2_Witness ==
    /\ Returned
    /\ input = Flatten(SeqItems(IncrChoices(<< <<1, FALSE>>, <<1, TRUE>>, <<11, FALSE>> >>),
                                <<" ">>))
    /\ ret.expr = makeSeqExpr(makeIncrExpr(1, FALSE),
                              makeSeqExpr(makeIncrExpr(1, TRUE),
                                          makeIncrExpr(11, FALSE)))

\* the source is "xN := xM +/- 1" with N # M
IsMixedIncrement(its) ==
    /\ Len(its) = 9
    /\ HasIndex(its[1]) /\ HasIndex(its[5]) /\ Index(its[1]) # Index(its[5])
    /\ its[3] = strAssign /\ its[7] \in {<<"+">>, <<"-">>} /\ its[9] = <<"1">>
    /\ its[2] \in Gaps /\ its[4] = its[2] /\ its[6] = its[2] /\ its[8] = its[2]

\* the i-th token read is a right side variable whose index is not the one
\* of the left side variable read two tokens before
MixedAt(i) ==
    /\ i >= 3
    /\ trace[i].where = "incrRight" /\ trace[i].tok = VARIABLE_T
    /\ trace[i - 2].where = "incrLeft"
    /\ HasIndex(trace[i].lit) /\ HasIndex(trace[i - 2].lit)
    /\ Index(trace[i].lit) # Index(trace[i - 2].lit)

\* C7: Parse of an increment whose two sides name different indices returns
\* an error and a nil tree, wherever in the program the increment stands
C7_SameVariable ==
    (Returned /\ (IsMixedIncrement(items) \/ \E i \in 1..Len(trace) : MixedAt(i))) =>
        ret.err # nil /\ ret.expr = NilPtr

C7_Witness ==
    /\ Returned
    /\ input = <<"x", "1", " ", ":", "=", " ", "x", "2", " ", "+", " ", "1">>
    /\ MixedAt(4)
    /\ ret.err = "second variable index has to match the first one"

\* the i-th token read is the one after the sign, and is no CONSTANT "1"
NotOneAt(i) ==
    /\ trace[i].where = "incrOne"
    /\ ~(trace[i].tok = CONSTANT_T /\ trace[i].lit = <<"1">> /\ trace[i].err = nil)

\* C8: when the token after the sign is not the constant 1, Parse returns an
\* error and a nil tree
C8_OnlyPlusMinusOne ==
    (Returned /\ \E i \in 1..Len(trace) : NotOneAt(i)) =>
        ret.err # nil /\ ret.expr = NilPtr

C8_Witness ==
    /\ Returned
    /\ input = <<"x", "1", " ", ":", "=", " ", "x", "1", " ", "+", " ", "0">>
    /\ NotOneAt(6) /\ trace[6].tok = CONSTANT_T
    /\ ret.err = "there has to follow a 1 after +/-"

\* C9: when a Scan made during Parse returned an error, Parse returns an
\* error
C9_FailFast ==
    (Returned /\ \E i \in 1..Len(trace) : trace[i].err # nil) => ret.err # nil

\* the same for the errors of unmatched fixed tokens alone
C9_FailFastOnMismatch ==
    (Returned /\ \E i \in 1..Len(trace) : trace[i].err = "unexpected string") =>
        ret.err # nil

\* the Parse invocation that read the last token has parsed an increment,
\* read a token that is neither SEMICOLON, EOF nor ILLEGAL after it, and has
\* returned; its caller, if it has one, has not gone on yet
IncrementThenOther ==
    /\ mode = "parser" /\ Len(trace) >= 7
    /\ Last(trace).where = "follow"
    /\ Last(trace).tok \notin {SEMICOLON, EOF, ILLEGAL}
    /\ trace[Len(trace) - 6].where = "start"
    /\ trace[Len(trace) - 6].depth = Last(trace).depth
    /\ Len(stack) = Last(trace).depth - 1

ReturnsTheIncrement ==
    /\ ret.err = nil
    /\ ret.expr = makeIncrExpr(Index(trace[Len(trace) - 6].lit),
                               trace[Len(trace) - 2].tok = MINUS)

\* C10 as claimed: the token is pushed back and the next scan returns it
C10_LeftInPushback ==
    IncrementThenOther =>
        /\ ReturnsTheIncrement
        /\ phase # "rescanned" =>
               buf.n = 1 /\ buf.tok = Last(trace).tok /\ buf.lit = Last(trace).lit
        /\ phase = "rescanned" =>
               next.tok = Last(trace).tok /\ next.lit = Last(trace).lit

\* C10: Parse returns the increment with a nil error and the token is
\* consumed: nothing is pushed back, and the next scan on the Parser returns
\* what the Scanner finds behind that token
C10_Consumed ==
    IncrementThenOther =>
        /\ ReturnsTheIncrement
        /\ phase # "rescanned" =>
               buf.n = 0 /\ buf.tok = Last(trace).tok /\ buf.lit = Last(trace).lit
        /\ phase = "rescanned" =>
               LET s == Scan(input, Last(trace).r) IN
               next = [tok |-> s.tok, lit |-> s.lit, err |-> s.err]

C10_Witness ==
    /\ IncrementThenOther /\ phase = "rescanned"
    /\ input = <<"x", "1", ":", "=", "x", "1", "+", "1", "D", "O", "E", "N", "D">>
    /\ Last(trace).tok = DO
    /\ next.tok = END
    /\ ret.expr = makeIncrExpr(1, FALSE)

\* the first token Parse read, past any leading whitespace, is no VARIABLE
FirstTokenNotVariable ==
    /\ trace # <<>> /\ trace[1].where = "start"
    /\ trace[1].err = nil /\ trace[1].tok \notin {VARIABLE_T, WS}

\* C11: when the first token that is not whitespace is no VARIABLE, Parse
\* returns a nil tree, whatever tokens follow
C11_NotVariableUnparseable ==
    (Returned /\ FirstTokenNotVariable) => ret.expr = NilPtr

\* the source holds no NUL character
NoNul == \A i \in 1..Len(input) : input[i] # eof

\* C13: a token scanIgnoreWhitespace returned with a nil error is never WS
C13_NoWhitespaceToGrammar ==
    \A i \in 1..Len(trace) : trace[i].err = nil => trace[i].tok # WS

\* the same over the sources without a NUL character
C13_NoWhitespaceWithoutNul == NoNul => C13_NoWhitespaceToGrammar

\* the i-th token read was pushed back by Parse: it is the VARIABLE that
\* starts a statement
PushedBack(i) ==
    trace[i].where = "start" /\ trace[i].err = nil /\ trace[i].tok = VARIABLE_T

\* C14: buf.n is 0 or 1; it is 0 after every scan, so whenever unscan is
\* called; a token is in the pushback only right after the scan that returned
\* it without error; and the scan that follows returns that token and literal
\* and leaves the Scanner where it was
C14_PushbackDiscipline ==
    mode = "parser" =>
        /\ buf.n \in {0, 1}
        /\ \A i \in 1..Len(trace) : trace[i].n = 0
        /\ buf.n = 1 =>
               /\ trace # <<>> /\ PushedBack(Len(trace))
               /\ buf.tok = Last(trace).tok /\ buf.lit = Last(trace).lit
               /\ pos = Last(trace).r
        /\ \A i \in 1..Len(trace) :
               PushedBack(i) =>
                   IF i = Len(trace) THEN buf.n = 1
                   ELSE /\ trace[i + 1].where = "incrLeft"
                        /\ trace[i + 1].tok = trace[i].tok
                        /\ trace[i + 1].lit = trace[i].lit
                        /\ trace[i + 1].err = nil
                        /\ trace[i + 1].r = trace[i].r
        /\ \A i \in 1..Len(trace) :
               trace[i].where = "incrLeft" => i > 1 /\ PushedBack(i - 1)

C14_Witness ==
    /\ Returned
    /\ input = <<"x", "1", ":", "=", "x", "1", "+", "1", ";",
                 "x", "1", "1", ":", "=", "x", "1", "1", "+", "1">>
    /\ PushedBack(1) /\ trace[2].where = "incrLeft" /\ trace[2].lit = <<"x", "1">>
    /\ PushedBack(8) /\ trace[9].where = "incrLeft"
    /\ trace[9].lit = <<"x", "1", "1">> /\ trace[9].r = trace[8].r
    /\ buf.n = 0

----------------------------------------------------------------------------
(* Further claims about the Scanner *)

RECURSIVE WsRunFrom(_, _)
\* the maximal run of whitespace characters of src that starts at a
WsRunFrom(src, a) ==
    IF a > Len(src) \/ ~isWhitespace(src[a]) THEN <<>>
    ELSE <<src[a]>> \o WsRunFrom(src, a + 1)

\* where the Scanner stands after the i-th Scan
After(i) == IF i < Len(out) THEN out[i + 1].at ELSE pos

\* the i-th Scan started on a whitespace character
AtWhitespace(i) == out[i].at <= Len(input) /\ isWhitespace(input[out[i].at])

\* C15: a Scan that starts on a whitespace character returns WS with the
\* maximal run of whitespace as its literal and consumes nothing else, and no
\* two Scans in a row return WS
C15_MaximalWhitespaceRun ==
    mode = "scanner" =>
        /\ \A i \in 1..Len(out) :
               AtWhitespace(i) =>
                   /\ out[i].tok = WS /\ out[i].err = nil
                   /\ out[i].lit = WsRunFrom(input, out[i].at)
                   /\ After(i) = out[i].at + Len(out[i].lit)
        /\ \A i \in 1..(Len(out) - 1) : ~(out[i].tok = WS /\ out[i + 1].tok = WS)

\* the same over the sources without a NUL character
C15_MaximalRunWithoutNul == NoNul => C15_MaximalWhitespaceRun

\* the characters Scan has a case for
KnownFirst ==
    {" ", "\t", "\n", eof, "x", "0", "1", ":", "!", ";", "+", "-", "W", "D", "E"}

\* the i-th Scan started on a character Scan has no case for
UnknownAt(i) == out[i].at <= Len(input) /\ input[out[i].at] \notin KnownFirst

\* C16: a Scan returns an error exactly when it returns ILLEGAL with the
\* empty literal, which it does on a read failure and on an unmatched fixed
\* token; on a character it has no case for it returns ILLEGAL with that
\* character as the literal, a nil error, and consumes just that character
C16_ErrorIffIllegalEmpty ==
    mode = "scanner" =>
        \A i \in 1..Len(out) :
            /\ out[i].err # nil <=> (out[i].tok = ILLEGAL /\ out[i].lit = <<>>)
            /\ out[i].at > Len(input) => out[i].err # nil
            /\ UnknownAt(i) =>
                   /\ out[i].tok = ILLEGAL /\ out[i].lit = <<input[out[i].at]>>
                   /\ out[i].err = nil
                   /\ After(i) = out[i].at + 1

C16_Witness ==
    /\ mode = "scanner" /\ input = <<"a", ":", "!">> /\ Len(out) = 2
    /\ UnknownAt(1) /\ out[1].tok = ILLEGAL /\ out[1].lit = <<"a">> /\ out[1].err = nil
    /\ out[2].tok = ILLEGAL /\ out[2].lit = <<>> /\ out[2].err = "unexpected string"

RECURSIVE DigitRunFrom(_, _)
\* the maximal run of decimal digits of src that starts at a
DigitRunFrom(src, a) ==
    IF a > Len(src) \/ ~isDigit(src[a]) THEN <<>>
    ELSE <<src[a]>> \o DigitRunFrom(src, a + 1)

\* C17, the Scanner's part: a Scan that starts on an 'x' returns VARIABLE with
\* a nil error, the literal being the 'x' and the maximal run of digits behind
\* it (just "x" when there is none), and consumes nothing else
C17_VariableToken ==
    mode = "scanner" =>
        \A i \in 1..Len(out) :
            (out[i].at <= Len(input) /\ input[out[i].at] = "x") =>
                /\ out[i].tok = VARIABLE_T /\ out[i].err = nil
                /\ out[i].lit = <<"x">> \o DigitRunFrom(input, out[i].at + 1)
                /\ After(i) = out[i].at + Len(out[i].lit)

\* the same over the sources without a NUL character
C17_VariableTokenWithoutNul == NoNul => C17_VariableToken

\* the i-th token read is a VARIABLE without digits on a side of an increment
BareVariableAt(i) ==
    /\ trace[i].where \in {"incrLeft", "incrRight"}
    /\ trace[i].err = nil /\ trace[i].tok = VARIABLE_T /\ trace[i].lit = <<"x">>

\* C17, the Parser's part: Parse of an increment with the variable "x" on
\* either side returns an error and a nil tree
C17_BareVariableFailsParse ==
    (Returned /\ \E i \in 1..Len(trace) : BareVariableAt(i)) =>
        ret.err # nil /\ ret.expr = NilPtr

----------------------------------------------------------------------------
(* Further claims about the Parser *)

x042 == <<"x", "0", "4", "2">>

\* the source is "xN := xM +/- 1" where N and M are digit runs of the same
\* value, one of them written with a leading zero
IsLeadingZeroIncrement(its) ==
    /\ Len(its) = 9
    /\ HasIndex(its[1]) /\ HasIndex(its[5]) /\ Index(its[1]) = Index(its[5])
    /\ its[1] # its[5] /\ (its[1][2] = "0" \/ its[5][2] = "0")
    /\ its[3] = strAssign /\ its[7] \in {<<"+">>, <<"-">>} /\ its[9] = <<"1">>
    /\ its[2] \in Gaps /\ its[4] = its[2] /\ its[6] = its[2] /\ its[8] = its[2]

RECURSIVE NodeTypes(_)
\* the Types of the nodes of the tree under e, a nil pointer having none
NodeTypes(e) ==
    IF e = NilPtr THEN {}
    ELSE {e.Type}
         \cup (IF e.SeqExpr = NilPtr THEN {}
               ELSE NodeTypes(e.SeqExpr.P1) \cup NodeTypes(e.SeqExpr.P2))
         \cup (IF e.WhileExpr = NilPtr THEN {} ELSE NodeTypes(e.WhileExpr.P))

\* a Parse invocation, the caller's or a recursive one, has returned
SomeReturn == mode = "parser" /\ ret.valid

\* C19: a tree returned by Parse has no WHILE_EXPR node at any depth; its
\* nodes are INCR_EXPR and SEQ_EXPR nodes only
C19_OnlyIncrAndSeq ==
    SomeReturn =>
        /\ WHILE_EXPR \notin NodeTypes(ret.expr)
        /\ NodeTypes(ret.expr) \subseteq {INCR_EXPR, SEQ_EXPR}

\* the first half alone
C19_NoWhileExpr == SomeReturn => WHILE_EXPR \notin NodeTypes(ret.expr)

RECURSIVE WellFormed(_)
\* e is an increment, or a sequence of two well-formed trees
WellFormed(e) ==
    /\ e # NilPtr
    /\ \/ e.Type = INCR_EXPR /\ e.IncrExpr # NilPtr
       \/ /\ e.Type = SEQ_EXPR /\ e.SeqExpr # NilPtr
          /\ WellFormed(e.SeqExpr.P1) /\ WellFormed(e.SeqExpr.P2)

\* C20: a Parse that returns a nil error returns a tree that is not nil and
\* is well-formed
C20_NilErrorWellFormed ==
    (SomeReturn /\ ret.err = nil) => WellFormed(ret.expr)

\* the same for the part of the claim about the root alone: Parse never
\* returns (nil, nil)
C20_NeverNilNil == (SomeReturn /\ ret.err = nil) => ret.expr # NilPtr

\* the number of semicolons among the characters of s
Semicolons(s) == Cardinality({ i \in 1..Len(s) : s[i] = ";" })

\* a Scan at any place of the source consumes a character, or stands at the
\* end of the stream and reports it as an error
ScanAdvances ==
    \A r \in 1..(Len(input) + 1) :
        \A s \in {Scan(input, r)} :
            /\ s.r >= r
            /\ s.r > r \/ (r > Len(input) /\ s.err # nil)

\* every recursive Parse was entered right after its caller read a SEMICOLON
EnteredAfterSemicolon ==
    /\ \A i \in 1..Len(trace) :
           (trace[i].where = "start" /\ trace[i].depth > 1) =>
               /\ i > 1
               /\ trace[i - 1].where = "follow" /\ trace[i - 1].tok = SEMICOLON
               /\ trace[i - 1].lit = <<";">>
               /\ trace[i - 1].depth = trace[i].depth - 1
    /\ (Len(stack) > 1 /\ Top.pc = "start") =>
           /\ trace # <<>>
           /\ Last(trace).where = "follow" /\ Last(trace).tok = SEMICOLON
           /\ Last(trace).depth = Len(stack) - 1

\* the recursion is no deeper than the semicolons read so far, plus one
DepthBounded ==
    /\ Len(stack) <= Semicolons(SubSeq(input, 1, pos - 1)) + 1
    /\ Len(stack) <= Semicolons(input) + 1
    /\ \A i \in 1..Len(trace) : trace[i].depth <= Semicolons(input) + 1

C21_Progress ==
    mode = "parser" => ScanAdvances /\ EnteredAfterSemicolon /\ DepthBounded

\* C21: a Parse that was called returns; every Scan consumes a character or
\* reports the end of the stream; a recursive Parse is entered only after a
\* SEMICOLON was read; and the recursion depth is at most the number of
\* semicolons of the input plus one
C21_ParseTerminates ==
    /\ []C21_Progress
    /\ (phase = "parsing") ~> (phase = "returned")

C21_Witness ==
    /\ Returned
    /\ input = Flatten(SeqItems(IncrChoices(<< <<1, TRUE>>, <<11, FALSE>>, <<1, FALSE>> >>),
                                <<" ">>))
    /\ Semicolons(input) = 2
    /\ \E i \in 1..Len(trace) : trace[i].where = "start" /\ trace[i].depth = 3
    /\ stack = <<>>
    /\ ret.err = nil

====
